---- MODULE Spec2Model ----
(***************************************************************************)
(* Cost-estimation engine of ESILV_Big_Data_Structure: the recursive       *)
(* schema sizer (app/sizer.py), the operator cost model (app/operators.py) *)
(* and the query driver (app/report.py), over the layouts of               *)
(* app/schemas.py and the statistics of app/constants.py.                  *)
(*                                                                         *)
(* Python floats are modelled as exact rationals <<num, den>> in lowest    *)
(* terms with den > 0.  Every call of a function is one action; the state  *)
(* records the arguments of the call in progress (call), what it returned  *)
(* or raised (ret), and, for a filter repeated with another selectivity,   *)
(* the selectivity and result of the preceding call (prev).                *)
(***************************************************************************)
EXTENDS Integers, Sequences, FiniteSets, TLC

VARIABLES call, ret, prev

vars == <<call, ret, prev>>

---------------------------------------------------------------------------
(* Bounds of the model.                                                    *)

\* largest average array length of the generated schema trees
MaxAvgLen == 2
\* selectivities are drawn from k / SelDen, k in 0..SelDen, plus 1/SmallDen
SelDen == 2
SmallDen == 50
\* scaled-down dataset cardinalities (the defaults do not fit 32-bit integers)
ScaledClients == 6
ScaledProducts == 4
ScaledOrderLines == 22
ScaledWarehouses == 3
ScaledBrands == 2
ScaledApple == 1
\* a second, smaller cluster next to the default one
SmallCluster == 4

---------------------------------------------------------------------------
(* app/constants.py                                                        *)

INT_B == 8
NUMBER_B == 8
STRING_B == 80
DATE_B == 20
LONGSTRING_B == 200
KV_OVERHEAD_B == 12

\* Infra.SERVERS default
SERVERS == 1000

\* Fixed configuration values of the cost-translation rule.  operators.py
\* imports them from app.constants, which does not define them; the values
\* below are arbitrary positive stand-ins, <<num, den>>.  Carbon and price
\* are kept in units of 2^-30 (kg, USD): the division by 1024**3 is a fixed
\* change of unit, exact in the rationals.
READ_BW_BPS == <<64, 1>>
NETWORK_LATENCY_S == <<1, 8>>
CARBON_PER_GB == <<3, 1>>
PRICE_PER_GB == <<5, 1>>

\* Stats(...): the six constructor fields; N_STOCK is a derived property
StatsRec(c, p, o, w, b, a) ==
    [N_CLIENTS |-> c, N_PRODUCTS |-> p, N_ORDERLINES |-> o,
     N_WAREHOUSES |-> w, N_BRANDS |-> b, N_APPLE_PRODUCTS |-> a]

\* N_STOCK holding the number of products alone
N_STOCK_products(st) == st.N_PRODUCTS

N_STOCK(st) == st.N_PRODUCTS * st.N_WAREHOUSES

\* the fields the generated __init__ of Stats accepts
StatsFields ==
    {"N_CLIENTS", "N_PRODUCTS", "N_ORDERLINES", "N_WAREHOUSES", "N_BRANDS",
     "N_APPLE_PRODUCTS"}

\* Stats(): the default record, scaled down
DefaultStats ==
    StatsRec(ScaledClients, ScaledProducts, ScaledOrderLines,
             ScaledWarehouses, ScaledBrands, ScaledApple)

\* Stats(**kwargs): a keyword that is no field raises TypeError, a field
\* left out takes its default
Stats(kwargs) ==
    IF ~(DOMAIN kwargs \subseteq StatsFields) THEN [status |-> "TypeError"]
    ELSE [status |-> "ok",
          value |-> [f \in StatsFields |->
                        IF f \in DOMAIN kwargs THEN kwargs[f]
                        ELSE DefaultStats[f]]]

\* setattr(stats, attr, value) on the frozen dataclass
StatsSetAttr(st, attr, value) == [status |-> "FrozenInstanceError"]

\* the fields of a Stats instance; AVG_PRODUCTS_PER_CLIENT is not one of them
StatsAttributes ==
    {"N_CLIENTS", "N_PRODUCTS", "N_ORDERLINES", "N_WAREHOUSES", "N_BRANDS",
     "N_APPLE_PRODUCTS", "N_STOCK"}

\* Averages(): class-level defaults computed from Stats()
Averages ==
    [PRODUCT_CATEGORIES_PER_PRODUCT |-> 2,
     STOCKS_PER_PRODUCT |-> DefaultStats.N_WAREHOUSES,
     ORDERLINES_PER_PRODUCT |->
         DefaultStats.N_ORDERLINES \div DefaultStats.N_PRODUCTS]

---------------------------------------------------------------------------
(* Float arithmetic, as exact rationals.                                   *)

Abs(n) == IF n < 0 THEN -n ELSE n

RECURSIVE GCD(_, _)
GCD(a, b) == IF b = 0 THEN a ELSE GCD(b, a % b)

Norm(n, d) ==
    LET g == GCD(Abs(n), d) IN <<n \div g, d \div g>>

R(n) == <<n, 1>>

\* x * y, reduced crosswise before multiplying
RMul(x, y) ==
    LET g1 == GCD(Abs(x[1]), y[2])
        g2 == GCD(Abs(y[1]), x[2])
    IN  Norm((x[1] \div g1) * (y[1] \div g2), (x[2] \div g2) * (y[2] \div g1))

\* x / y for y > 0
RDiv(x, y) == RMul(x, <<y[2], y[1]>>)

RAdd(x, y) ==
    LET g == GCD(x[2], y[2])
    IN  Norm(x[1] * (y[2] \div g) + y[1] * (x[2] \div g), (x[2] \div g) * y[2])

\* x <= y: whole parts first, then the fractional remainders crosswise
RLe(x, y) ==
    LET qx == x[1] \div x[2]
        qy == y[1] \div y[2]
    IN  \/ qx < qy
        \/ qx = qy /\ (x[1] % x[2]) * y[2] <= (y[1] % y[2]) * x[2]

RLt(x, y) == ~RLe(y, x)

RMax(x, y) == IF RLe(x, y) THEN y ELSE x

IMax(a, b) == IF a >= b THEN a ELSE b

---------------------------------------------------------------------------
(* app/sizer.py                                                            *)

PrimTypes == {"int", "number", "string", "longstring", "date"}

\* PRIM_SIZE with the widths of "string" and "date" exchanged
PRIM_SIZE_swapped ==
    [t \in PrimTypes |->
        CASE t = "int" -> INT_B
          [] t = "number" -> NUMBER_B
          [] t = "string" -> DATE_B
          [] t = "longstring" -> LONGSTRING_B
          [] t = "date" -> STRING_B]

PRIM_SIZE ==
    [t \in PrimTypes |->
        CASE t = "int" -> INT_B
          [] t = "number" -> NUMBER_B
          [] t = "string" -> STRING_B
          [] t = "longstring" -> LONGSTRING_B
          [] t = "date" -> DATE_B]

\* the value that stands for a raised ValueError("Unknown schema type")
ValueError == -1

\* sum of f[k] over the keys of f, ValueError as soon as one summand raises
RECURSIVE SumFields(_, _)
SumFields(f, keys) ==
    IF keys = {} THEN 0
    ELSE LET k == CHOOSE x \in keys : TRUE
             rest == SumFields(f, keys \ {k})
         IN  IF f[k] = ValueError \/ rest = ValueError
             THEN ValueError
             ELSE f[k] + rest

RECURSIVE _size_of_schema(_)
_size_of_schema(schema) ==
    LET typ == schema.type IN
    IF typ \in PrimTypes THEN KV_OVERHEAD_B + PRIM_SIZE[typ]
    ELSE IF typ = "object" THEN
        SumFields([k \in DOMAIN schema.fields |->
                       _size_of_schema(schema.fields[k])],
                  DOMAIN schema.fields)
    ELSE IF typ = "array" THEN
        LET avg_len == IF "avg_len" \in DOMAIN schema
                       THEN schema.avg_len ELSE 0
            item_size == _size_of_schema(schema.items)
        IN  IF item_size = ValueError THEN ValueError
            ELSE KV_OVERHEAD_B + avg_len * item_size
    ELSE ValueError

\* doc_size_bytes not sizing the items of an array of average length 0
doc_size_bytes_emptyarray(schema) ==
    IF /\ schema.type = "array"
       /\ "avg_len" \in DOMAIN schema => schema.avg_len = 0
    THEN KV_OVERHEAD_B
    ELSE _size_of_schema(schema)

doc_size_bytes(schema) == _size_of_schema(schema)

collection_cardinality(name, st) ==
    IF name = "Product" THEN st.N_PRODUCTS
    ELSE IF name = "Stock" THEN N_STOCK(st)
    ELSE IF name = "Warehouse" THEN st.N_WAREHOUSES
    ELSE IF name = "OrderLine" THEN st.N_ORDERLINES
    ELSE IF name = "Client" THEN st.N_CLIENTS
    ELSE 0

\* the loop of projection_size over the requested names, in list order
RECURSIVE ProjLoop(_, _, _)
ProjLoop(schema, fields, i) ==
    IF i > Len(fields) THEN 0
    ELSE LET f == fields[i]
             rest == ProjLoop(schema, fields, i + 1)
             here == IF f \in DOMAIN schema.fields
                     THEN doc_size_bytes(schema.fields[f])
                     ELSE 0
         IN  IF here = ValueError \/ rest = ValueError
             THEN ValueError
             ELSE here + rest

\* projection_size without the fall-back to the full document size
projection_size_nofallback(schema, fields) ==
    IF schema.type # "object" THEN doc_size_bytes(schema)
    ELSE ProjLoop(schema, fields, 1)

projection_size(schema, fields) ==
    IF schema.type # "object" THEN doc_size_bytes(schema)
    ELSE LET total == ProjLoop(schema, fields, 1)
         IN  IF total = ValueError THEN ValueError
             ELSE IF total > 0 THEN total
             ELSE doc_size_bytes(schema)

---------------------------------------------------------------------------
(* app/schemas.py                                                          *)

Prim(t) == [type |-> t]

Obj(f) == [type |-> "object", fields |-> f]

Arr(item, n) == [type |-> "array", items |-> item, avg_len |-> n]

price_schema ==
    Obj([value |-> Prim("number"), currency |-> Prim("string"),
         vat |-> Prim("number")])

category_schema == Obj([title |-> Prim("string")])

supplier_schema ==
    Obj([IDS |-> Prim("int"), name |-> Prim("string"),
         SIRET |-> Prim("string"), headOffice |-> Prim("string"),
         revenue |-> Prim("number")])

product_core_schema ==
    Obj([IDP |-> Prim("int"), name |-> Prim("string"),
         price |-> price_schema, brand |-> Prim("string"),
         description |-> Prim("longstring"), image_url |-> Prim("string")])

stock_schema ==
    Obj([IDP |-> Prim("int"), IDW |-> Prim("int"),
         quantity |-> Prim("int"), location |-> Prim("string")])

warehouse_schema ==
    Obj([IDW |-> Prim("int"), address |-> Prim("string"),
         capacity |-> Prim("int")])

orderline_schema ==
    Obj([IDP |-> Prim("int"), IDC |-> Prim("int"), date |-> Prim("date"),
         quantity |-> Prim("int"), deliveryDate |-> Prim("date"),
         comment |-> Prim("string"), grade |-> Prim("int")])

client_schema ==
    Obj([IDC |-> Prim("int"), ln |-> Prim("string"), fn |-> Prim("string"),
         address |-> Prim("string"), nationality |-> Prim("string"),
         birthDate |-> Prim("date"), email |-> Prim("string")])

\* schema["fields"][k] = sub
WithField(schema, k, sub) == Obj((k :> sub) @@ schema.fields)

\* the product document shared by DB1..DB5: core + categories + supplier
ProdCatSupp(a) ==
    WithField(
        WithField(product_core_schema, "categories",
                  Arr(category_schema, a.PRODUCT_CATEGORIES_PER_PRODUCT)),
        "supplier", supplier_schema)

db1(a) ==
    [Product |-> ProdCatSupp(a), Stock |-> stock_schema,
     Warehouse |-> warehouse_schema, OrderLine |-> orderline_schema,
     Client |-> client_schema]

db2(a) ==
    [Product |-> WithField(ProdCatSupp(a), "stocks",
                           Arr(stock_schema, a.STOCKS_PER_PRODUCT)),
     Warehouse |-> warehouse_schema, OrderLine |-> orderline_schema,
     Client |-> client_schema]

db3(a) ==
    [Stock |-> WithField(stock_schema, "product", ProdCatSupp(a)),
     Warehouse |-> warehouse_schema, OrderLine |-> orderline_schema,
     Client |-> client_schema]

db4(a) ==
    [Stock |-> stock_schema, Warehouse |-> warehouse_schema,
     OrderLine |-> WithField(orderline_schema, "product", ProdCatSupp(a)),
     Client |-> client_schema]

db5(a) ==
    [Product |-> WithField(ProdCatSupp(a), "orderLines",
                           Arr(orderline_schema, a.ORDERLINES_PER_PRODUCT)),
     Stock |-> stock_schema, Warehouse |-> warehouse_schema,
     Client |-> client_schema]

all_layouts(a) ==
    [DB1 |-> db1(a), DB2 |-> db2(a), DB3 |-> db3(a), DB4 |-> db4(a),
     DB5 |-> db5(a)]

---------------------------------------------------------------------------
(* app/operators.py                                                        *)

\* Optional[...] arguments: None, or a present value
None == <<>>

Some(x) == <<x>>

\* Python's  opt or default  for an optional list
OrElse(opt, default) ==
    IF opt = None THEN default
    ELSE IF opt[1] = <<>> THEN default
    ELSE opt[1]

\* str.lower() on the brand values the model passes
BrandValues == {"Apple", "apple", "APPLE", "Samsung"}

Lower(s) ==
    CASE s = "Apple" -> "apple"
      [] s = "apple" -> "apple"
      [] s = "APPLE" -> "apple"
      [] s = "Samsung" -> "samsung"

_costs_from_scan(scanned_bytes, shards_touched, parallelism) ==
    LET scan_s == RDiv(RDiv(scanned_bytes, R(IMax(parallelism, 1))),
                       READ_BW_BPS)
        time_s == RAdd(scan_s, RMul(R(shards_touched), NETWORK_LATENCY_S))
        carbon == RMul(scanned_bytes, CARBON_PER_GB)
        price == RMul(scanned_bytes, PRICE_PER_GB)
    IN  [time_s |-> time_s, carbon |-> carbon, price |-> price]

\* selectivity_for comparing the brand value with "apple" as it is written
selectivity_for_casesensitive(collection, key, st, value) ==
    IF key = "IDP" THEN <<1, st.N_PRODUCTS>>
    ELSE IF key = "IDW" THEN <<1, st.N_WAREHOUSES>>
    ELSE IF key = "IDC" THEN <<1, st.N_CLIENTS>>
    ELSE IF key = "brand" THEN
        IF value # None /\ value[1] = "apple"
        THEN Norm(st.N_APPLE_PRODUCTS, st.N_PRODUCTS)
        ELSE <<1, st.N_BRANDS>>
    ELSE IF key = "date" THEN <<1, 365>>
    ELSE <<1, 100>>

selectivity_for(collection, key, st, value) ==
    IF key = "IDP" THEN <<1, st.N_PRODUCTS>>
    ELSE IF key = "IDW" THEN <<1, st.N_WAREHOUSES>>
    ELSE IF key = "IDC" THEN <<1, st.N_CLIENTS>>
    ELSE IF key = "brand" THEN
        IF value # None /\ Lower(value[1]) = "apple"
        THEN Norm(st.N_APPLE_PRODUCTS, st.N_PRODUCTS)
        ELSE <<1, st.N_BRANDS>>
    ELSE IF key = "date" THEN <<1, 365>>
    ELSE <<1, 100>>

Raise(e) == [status |-> e]

OperatorCost(nm, out_docs, out_size, scanned, shards, costs) ==
    [status |-> "ok", name |-> nm, output_docs |-> out_docs,
     output_size_bytes |-> out_size, scanned_bytes |-> scanned,
     shards_touched |-> shards, time_s |-> costs.time_s,
     carbon_kg |-> costs.carbon, price_usd |-> costs.price]

\* shards_touched of filter_operator with shard_aware ignored
FilterShardsTouched_scatter(inf, sharded, shard_aware) ==
    IF sharded THEN inf.SERVERS ELSE 1

\* shards_touched of filter_operator
FilterShardsTouched(inf, sharded, shard_aware) ==
    IF sharded /\ shard_aware THEN 1
    ELSE IF sharded THEN inf.SERVERS ELSE 1

\* matched_docs of filter_operator without the floor at one document
FilterMatchedDocs_nofloor(total_docs, selectivity) ==
    IF RLt(R(0), selectivity) THEN RMul(R(total_docs), selectivity) ELSE R(0)

\* matched_docs of filter_operator with the floor in the wrong branch
FilterMatchedDocs_misplaced(total_docs, selectivity) ==
    IF RLt(R(0), selectivity) THEN RMul(R(total_docs), selectivity) ELSE R(1)

\* raw_matched and matched_docs of filter_operator
FilterMatchedDocs(total_docs, selectivity) ==
    LET raw_matched == RMul(R(total_docs), selectivity)
    IN  IF RLt(R(0), selectivity) THEN RMax(raw_matched, R(1)) ELSE R(0)

\* scope_docs of filter_operator with every shard holding the collection
FilterScopeDocs_undivided(total_docs, inf, sharded, shard_aware) ==
    IF sharded
    THEN RMul(R(total_docs), R(FilterShardsTouched(inf, sharded, shard_aware)))
    ELSE R(total_docs)

\* docs_per_shard and scope_docs of filter_operator
FilterScopeDocs(total_docs, inf, sharded, shard_aware) ==
    LET docs_per_shard == IF sharded THEN Norm(total_docs, inf.SERVERS)
                          ELSE R(total_docs)
        shards_touched == FilterShardsTouched(inf, sharded, shard_aware)
    IN  IF sharded THEN RMul(docs_per_shard, R(shards_touched))
        ELSE R(total_docs)

\* docs_scanned of filter_operator without the floor at the matches
FilterDocsScanned_nomatchfloor(scope_docs, matched_docs, selectivity, indexed) ==
    LET docs_scanned1 == IF ~indexed THEN scope_docs
                         ELSE RMul(scope_docs, selectivity)
    IN  IF RLt(R(0), selectivity) THEN RMax(docs_scanned1, R(1)) ELSE R(0)

\* docs_scanned of filter_operator, through its three assignments
FilterDocsScanned(scope_docs, matched_docs, selectivity, indexed) ==
    LET docs_scanned1 == IF ~indexed THEN scope_docs
                         ELSE RMul(scope_docs, selectivity)
        docs_scanned2 == RMax(docs_scanned1, matched_docs)
    IN  IF RLt(R(0), selectivity) THEN RMax(docs_scanned2, R(1)) ELSE R(0)

filter_operator(layout, st, inf, collection, filter_key, selectivity, projected_fields, sharded, shard_aware, indexed) ==
    IF collection \notin DOMAIN layout THEN Raise("KeyError")
    ELSE
    LET total_docs == collection_cardinality(collection, st)
        schema == layout[collection]
        doc_sz == doc_size_bytes(schema)
        proj_sz == projection_size(schema, OrElse(projected_fields, <<>>))
        shards_touched == FilterShardsTouched(inf, sharded, shard_aware)
        scope_docs == FilterScopeDocs(total_docs, inf, sharded, shard_aware)
        matched_docs == FilterMatchedDocs(total_docs, selectivity)
        docs_scanned == FilterDocsScanned(scope_docs, matched_docs,
                                          selectivity, indexed)
        scanned_bytes == RMul(docs_scanned, R(doc_sz))
        output_size == RMul(matched_docs, R(proj_sz))
        parallelism == IF sharded THEN shards_touched ELSE 1
        costs == _costs_from_scan(scanned_bytes, shards_touched, parallelism)
    IN  IF doc_sz = ValueError \/ proj_sz = ValueError
        THEN Raise("ValueError")
        ELSE OperatorCost(IF sharded THEN "filter_sharded"
                          ELSE "filter_no_shard",
                          matched_docs, output_size, scanned_bytes,
                          shards_touched, costs)

\* _join_multiplicity with a fall-back of 0 for the unlisted combinations
_join_multiplicity_zero(outer, inner, join_key, st) ==
    IF outer = "Stock" /\ inner = "Product" /\ join_key = "IDP" THEN 1
    ELSE IF outer = "Product" /\ inner = "Stock" /\ join_key = "IDP"
        THEN st.N_WAREHOUSES
    ELSE IF outer = "OrderLine" /\ inner = "Product" /\ join_key = "IDP"
        THEN 1
    ELSE IF outer = "Product" /\ inner = "OrderLine" /\ join_key = "IDP"
        THEN st.N_ORDERLINES \div st.N_PRODUCTS
    ELSE 0

_join_multiplicity(outer, inner, join_key, st) ==
    IF outer = "Stock" /\ inner = "Product" /\ join_key = "IDP" THEN 1
    ELSE IF outer = "Product" /\ inner = "Stock" /\ join_key = "IDP"
        THEN st.N_WAREHOUSES
    ELSE IF outer = "OrderLine" /\ inner = "Product" /\ join_key = "IDP"
        THEN 1
    ELSE IF outer = "Product" /\ inner = "OrderLine" /\ join_key = "IDP"
        THEN st.N_ORDERLINES \div st.N_PRODUCTS
    ELSE 1

\* the outer filter of nested_loop_join run without an index
JoinOuterCost_unindexed(layout, st, inf, outer_collection, outer_filter_key, outer_selectivity, outer_projected, sharded, shard_aligned) ==
    filter_operator(layout, st, inf, outer_collection, outer_filter_key,
                    outer_selectivity, outer_projected, sharded,
                    shard_aligned, FALSE)

\* outer_cost of nested_loop_join: the outer collection filtered first
JoinOuterCost(layout, st, inf, outer_collection, outer_filter_key, outer_selectivity, outer_projected, sharded, shard_aligned) ==
    filter_operator(layout, st, inf, outer_collection, outer_filter_key,
                    outer_selectivity, outer_projected, sharded,
                    shard_aligned, TRUE)

nested_loop_join(layout, st, inf, outer_collection, inner_collection, join_key, outer_filter_key, outer_selectivity, outer_projected, inner_projected, sharded, shard_aligned) ==
    LET outer_cost == JoinOuterCost(layout, st, inf, outer_collection,
                                    outer_filter_key, outer_selectivity,
                                    outer_projected, sharded, shard_aligned)
    IN
    IF outer_cost.status # "ok" THEN outer_cost
    ELSE IF inner_collection \notin DOMAIN layout THEN Raise("KeyError")
    ELSE
    LET outer_docs == outer_cost.output_docs
        matches_per_outer == _join_multiplicity(outer_collection,
                                                inner_collection, join_key, st)
        inner_hits == RMul(outer_docs, R(matches_per_outer))
        inner_schema == layout[inner_collection]
        inner_doc_sz == doc_size_bytes(inner_schema)
        inner_proj_sz == projection_size(inner_schema,
                                         OrElse(inner_projected, <<>>))
        shards_touched == IF ~sharded THEN 1
                          ELSE IF shard_aligned THEN 1 ELSE inf.SERVERS
        scanned_bytes == RAdd(outer_cost.scanned_bytes,
                              RMul(inner_hits, R(inner_doc_sz)))
        output_size ==
            RMul(inner_hits,
                 R(projection_size(layout[outer_collection],
                                   OrElse(outer_projected, <<>>))
                   + inner_proj_sz))
        parallelism == IF sharded THEN shards_touched ELSE 1
        costs == _costs_from_scan(scanned_bytes, shards_touched, parallelism)
    IN  IF inner_doc_sz = ValueError \/ inner_proj_sz = ValueError
        THEN Raise("ValueError")
        ELSE OperatorCost(IF sharded THEN "nested_loop_sharded"
                          ELSE "nested_loop_no_shard",
                          inner_hits, output_size, scanned_bytes,
                          shards_touched, costs)

\* what  stats.<attr>  evaluates to; a name that is no attribute of Stats
\* raises AttributeError
StatsAttr(st, attr) ==
    IF attr \notin StatsAttributes THEN Raise("AttributeError")
    ELSE [status |-> "ok",
          value |-> IF attr = "N_STOCK" THEN N_STOCK(st) ELSE st[attr]]

_distinct_for_group(collection, group_keys, st, filtered_docs, filter_key) ==
    IF collection = "OrderLine" /\ group_keys = <<"IDP">> THEN
        IF filter_key = Some("IDC")
        THEN LET a == StatsAttr(st, "AVG_PRODUCTS_PER_CLIENT")
             IN  IF a.status = "ok"
                 THEN [status |-> "ok", value |-> R(a.value)] ELSE a
        ELSE [status |-> "ok", value |-> R(st.N_PRODUCTS)]
    ELSE IF collection = "OrderLine" /\ group_keys = <<"IDC">>
        THEN [status |-> "ok", value |-> R(st.N_CLIENTS)]
    ELSE [status |-> "ok", value |-> filtered_docs]

\* shards_touched of aggregate_operator reduced to 1 when shard-aligned
AggShardsTouched_aligned(inf, sharded, shard_aligned) ==
    IF sharded /\ shard_aligned THEN 1
    ELSE IF sharded THEN inf.SERVERS ELSE 1

\* shards_touched of aggregate_operator; shard_aligned plays no part in it
AggShardsTouched(inf, sharded, shard_aligned) ==
    IF sharded THEN inf.SERVERS ELSE 1

\* agg_payload of aggregate_operator without the storage overhead
agg_payload_bare == INT_B

\* agg_payload of aggregate_operator: one aggregate metric per group
agg_payload == KV_OVERHEAD_B + INT_B

aggregate_operator(layout, st, inf, collection, group_keys, projected_fields, sharded, shard_aligned, filter_key, filter_selectivity) ==
    IF collection \notin DOMAIN layout THEN Raise("KeyError")
    ELSE
    LET total_docs == collection_cardinality(collection, st)
        schema == layout[collection]
        doc_sz == doc_size_bytes(schema)
        proj_sz == projection_size(schema,
                                   OrElse(projected_fields, group_keys))
        input_docs == RMul(R(total_docs), filter_selectivity)
        shards_touched == AggShardsTouched(inf, sharded, shard_aligned)
        scanned_bytes == RMul(input_docs, R(doc_sz))
        parallelism == IF sharded THEN shards_touched ELSE 1
        latency_scope == IF sharded /\ shard_aligned THEN 1
                         ELSE shards_touched
        costs == _costs_from_scan(scanned_bytes,
                                  IF sharded THEN latency_scope ELSE 1,
                                  parallelism)
        distinct_groups == _distinct_for_group(collection, group_keys, st,
                                               input_docs, filter_key)
    IN  IF doc_sz = ValueError \/ proj_sz = ValueError
        THEN Raise("ValueError")
        ELSE IF distinct_groups.status # "ok" THEN distinct_groups
        ELSE OperatorCost(IF sharded THEN "aggregate_sharded"
                          ELSE "aggregate_no_shard",
                          distinct_groups.value,
                          RMul(distinct_groups.value,
                               R(proj_sz + agg_payload)),
                          scanned_bytes,
                          IF sharded THEN shards_touched ELSE 1,
                          costs)

---------------------------------------------------------------------------
(* app/report.py: the query builders q1..q7 of run_all_reports             *)

NA(msg) == [status |-> "N/A", text |-> msg]

q1(layout, st, inf) ==
    IF "Stock" \notin DOMAIN layout THEN NA("N/A (Stock not in layout)")
    ELSE filter_operator(layout, st, inf, "Stock", "IDP+IDW",
             RMul(selectivity_for("Stock", "IDP", st, None),
                  selectivity_for("Stock", "IDW", st, None)),
             Some(<<"quantity", "location">>), TRUE, TRUE, TRUE)

q2(layout, st, inf) ==
    IF "Product" \notin DOMAIN layout THEN NA("N/A (Product not in layout)")
    ELSE filter_operator(layout, st, inf, "Product", "brand",
             selectivity_for("Product", "brand", st, Some("Apple")),
             Some(<<"name", "price">>), FALSE, FALSE, TRUE)

q3(layout, st, inf) ==
    IF "OrderLine" \notin DOMAIN layout
    THEN NA("N/A (OrderLine not in layout)")
    ELSE filter_operator(layout, st, inf, "OrderLine", "date",
             selectivity_for("OrderLine", "date", st, None),
             Some(<<"IDP", "quantity">>), TRUE, FALSE, TRUE)

q4(layout, st, inf) ==
    IF "Stock" \notin DOMAIN layout \/ "Product" \notin DOMAIN layout
    THEN NA("N/A (missing Stock/Product)")
    ELSE nested_loop_join(layout, st, inf, "Stock", "Product", "IDP", "IDW",
             selectivity_for("Stock", "IDW", st, None),
             Some(<<"IDP", "quantity">>), Some(<<"name">>), TRUE, FALSE)

q5(layout, st, inf) ==
    IF "Product" \notin DOMAIN layout \/ "Stock" \notin DOMAIN layout
    THEN NA("N/A (missing Product/Stock)")
    ELSE nested_loop_join(layout, st, inf, "Product", "Stock", "IDP", "brand",
             selectivity_for("Product", "brand", st, Some("Apple")),
             Some(<<"name", "price">>), Some(<<"IDW", "quantity">>),
             FALSE, FALSE)

q6(layout, st, inf) ==
    IF "OrderLine" \notin DOMAIN layout
    THEN NA("N/A (OrderLine not in layout)")
    ELSE aggregate_operator(layout, st, inf, "OrderLine", <<"IDP">>,
             Some(<<"IDP">>), TRUE, TRUE, None, R(1))

q7(layout, st, inf) ==
    IF "OrderLine" \notin DOMAIN layout
    THEN NA("N/A (OrderLine not in layout)")
    ELSE aggregate_operator(layout, st, inf, "OrderLine", <<"IDP">>,
             Some(<<"IDP">>), FALSE, FALSE, Some("IDC"),
             selectivity_for("OrderLine", "IDC", st, None))

QueryNames == {"Q1", "Q2", "Q3", "Q4", "Q5", "Q6", "Q7"}

\* query_plan: the builder of each query
query_plan(q, layout, st, inf) ==
    CASE q = "Q1" -> q1(layout, st, inf)
      [] q = "Q2" -> q2(layout, st, inf)
      [] q = "Q3" -> q3(layout, st, inf)
      [] q = "Q4" -> q4(layout, st, inf)
      [] q = "Q5" -> q5(layout, st, inf)
      [] q = "Q6" -> q6(layout, st, inf)
      [] q = "Q7" -> q7(layout, st, inf)

---------------------------------------------------------------------------
(* app/sharding.py                                                         *)

ShardReport(collection, strategy, docs, distinct) ==
    [collection |-> collection, strategy |-> strategy,
     docs_per_server |-> docs, distinct_values_per_server |-> distinct]

_avg_docs_per_server(total_docs, servers) == Norm(total_docs, servers)

_avg_distinct_per_server(distinct_values, servers) ==
    Norm(distinct_values, servers)

st_by_idp(st, inf) ==
    ShardReport("Stock", "St - #IDP",
                _avg_docs_per_server(N_STOCK(st), inf.SERVERS),
                _avg_distinct_per_server(st.N_PRODUCTS, inf.SERVERS))

st_by_idw(st, inf) ==
    ShardReport("Stock", "St - #IDW",
                _avg_docs_per_server(N_STOCK(st), inf.SERVERS),
                _avg_distinct_per_server(st.N_WAREHOUSES, inf.SERVERS))

ol_by_idc(st, inf) ==
    ShardReport("OrderLine", "OL - #IDC",
                _avg_docs_per_server(st.N_ORDERLINES, inf.SERVERS),
                _avg_distinct_per_server(st.N_CLIENTS, inf.SERVERS))

ol_by_idp(st, inf) ==
    ShardReport("OrderLine", "OL - #IDP",
                _avg_docs_per_server(st.N_ORDERLINES, inf.SERVERS),
                _avg_distinct_per_server(st.N_PRODUCTS, inf.SERVERS))

prod_by_idp(st, inf) ==
    ShardReport("Product", "Prod - #IDP",
                _avg_docs_per_server(st.N_PRODUCTS, inf.SERVERS),
                _avg_distinct_per_server(st.N_PRODUCTS, inf.SERVERS))

prod_by_brand(st, inf) ==
    ShardReport("Product", "Prod - #brand",
                _avg_docs_per_server(st.N_PRODUCTS, inf.SERVERS),
                _avg_distinct_per_server(st.N_BRANDS, inf.SERVERS))

all_sharding_reports(st, inf) ==
    <<st_by_idp(st, inf), st_by_idw(st, inf), ol_by_idc(st, inf),
      ol_by_idp(st, inf), prod_by_idp(st, inf), prod_by_brand(st, inf)>>

---------------------------------------------------------------------------
(* Arguments the calls are made with.                                      *)

\* a type name that is none of the five primitives, object or array
UnknownType == "bool"

Leaves == {Prim(t) : t \in PrimTypes \cup {UnknownType}}

ArraysOver(S) ==
    {Arr(s, n) : s \in S, n \in 0..MaxAvgLen}
        \cup {[type |-> "array", items |-> s] : s \in S}

ObjectsOver(S, T) ==
    {Obj(<<>>)} \cup {Obj("a" :> s) : s \in S}
        \cup {Obj(("a" :> s) @@ ("b" :> t)) : s \in S, t \in T}

Schemas1 == Leaves \cup ArraysOver(Leaves) \cup ObjectsOver(Leaves, Leaves)

SchemaSet ==
    Schemas1 \cup ArraysOver(Schemas1) \cup ObjectsOver(Schemas1, Leaves)
        \cup {stock_schema, ProdCatSupp(Averages)}

\* the schemas projection_size is called with
ProjSchemas ==
    Leaves \cup ObjectsOver(Schemas1, Leaves) \cup {Arr(Prim("int"), 2)}

FieldLists == {<<>>, <<"a">>, <<"a", "b">>, <<"a", "a">>, <<"z">>, <<"z", "b">>}

\* a second Stats(...) record, every field set by the caller
OtherStats == StatsRec(5, 3, 23, 2, 4, 2)

StatsSet == {DefaultStats, OtherStats}

\* Stats() with its real defaults, but for N_ORDERLINES (4 * 10^9 is beyond
\* 32-bit integers); used where N_ORDERLINES is not read
CatalogStats == StatsRec(10000000, 100000, ScaledOrderLines, 200, 5000, 50)

\* Infra(): the default cluster
DefaultInfra == [SERVERS |-> SERVERS]

\* the (stats, infra) pairs the operators are called with
Envs ==
    {<<DefaultStats, DefaultInfra>>,
     <<OtherStats, [SERVERS |-> SmallCluster]>>}

\* keyword arguments Stats is constructed with
StatsKwargs ==
    {<<>>, [N_PRODUCTS |-> 7], [N_WAREHOUSES |-> 5],
     [N_PRODUCTS |-> 7, N_WAREHOUSES |-> 5],
     [N_PRODUCTS |-> 100000, N_WAREHOUSES |-> 200],
     [N_STOCK |-> 9], [N_PRODUCTS |-> 7, N_WAREHOUSES |-> 5, N_STOCK |-> 9]}

\* filter_operator is also called on Product with the real catalogue size
FilterEnvs == Envs \cup {<<CatalogStats, DefaultInfra>>}

\* a layout outside DB1..DB5: a collection unknown to collection_cardinality
\* and a collection whose schema is not an object
dbx == [Supplier |-> supplier_schema, Tags |-> Arr(Prim("string"), 2)]

\* the layouts the operators are called with directly
OpLayouts == {"DB1", "DB2", "DB4", "DBX"}

Layout(n) == IF n = "DBX" THEN dbx ELSE all_layouts(Averages)[n]

Collections == {"Product", "Stock", "OrderLine", "Supplier", "Tags"}

Selectivities == {<<0, 1>>, <<1, SmallDen>>} \cup
                 {Norm(k, SelDen) : k \in 1..SelDen}

\* the selectivities of a filter: the grid, and the one selectivity_for
\* gives for the brand "Apple" on the real catalogue
FilterSelectivities ==
    Selectivities \cup
        {selectivity_for("Product", "brand", CatalogStats, Some("Apple"))}

SelectivityKeys == {"IDP", "IDW", "IDC", "brand", "date", "price"}

ProjectedChoices == {None, Some(<<"IDP", "quantity">>), Some(<<"nope">>)}

GroupKeyChoices == {<<"IDP">>, <<"IDC">>, <<"IDP", "IDC">>}

FilterKeyChoices == {None, Some("IDC"), Some("date")}

JoinKeys == {"IDP", "IDW"}

Idle == [op |-> "idle"]

NoRet == [status |-> "none"]

---------------------------------------------------------------------------
(* The calls.                                                              *)

Init == call = Idle /\ ret = NoRet /\ prev = <<>>

\* the call in progress returns to the caller
Return ==
    /\ call.op # "idle"
    /\ call' = Idle
    /\ ret' = NoRet
    /\ prev' = <<>>

SizeOf ==
    /\ call.op = "idle"
    /\ \E schema \in SchemaSet :
        /\ call' = [op |-> "size_of", schema |-> schema]
        /\ ret' = LET v == doc_size_bytes(schema)
                  IN  IF v = ValueError THEN Raise("ValueError")
                      ELSE [status |-> "ok", value |-> v]
    /\ prev' = <<>>

Projection ==
    /\ call.op = "idle"
    /\ \E schema \in ProjSchemas, fields \in FieldLists :
        /\ call' = [op |-> "projection_size", schema |-> schema,
                    fields |-> fields]
        /\ ret' = LET v == projection_size(schema, fields)
                  IN  IF v = ValueError THEN Raise("ValueError")
                      ELSE [status |-> "ok", value |-> v]
    /\ prev' = <<>>

FilterCall(l, env, c, s, pf, sh, aw, ix) ==
    [op |-> "filter", layout |-> l, stats |-> env[1], infra |-> env[2],
     collection |-> c, selectivity |-> s, projected_fields |-> pf,
     sharded |-> sh, shard_aware |-> aw, indexed |-> ix]

FilterRet(c) ==
    filter_operator(Layout(c.layout), c.stats, c.infra, c.collection, "key",
                    c.selectivity, c.projected_fields, c.sharded,
                    c.shard_aware, c.indexed)

\* filter_operator, called afresh, or called again with every argument but
\* the selectivity unchanged (prev then keeps the preceding selectivity and
\* result)
Filter ==
    \E s \in FilterSelectivities :
        \/ /\ call.op = "idle"
           /\ \E l \in OpLayouts, env \in FilterEnvs,
                 c \in {"Product", "Stock", "OrderLine", "Supplier"},
                 pf \in ProjectedChoices, sh \in BOOLEAN, aw \in BOOLEAN,
                 ix \in BOOLEAN :
                /\ env[1] = CatalogStats => c = "Product"
                /\ call' = FilterCall(l, env, c, s, pf, sh, aw, ix)
                /\ ret' = FilterRet(call')
           /\ prev' = <<>>
        \/ /\ call.op = "filter"
           /\ prev = <<>>
           /\ call' = [call EXCEPT !.selectivity = s]
           /\ ret' = FilterRet(call')
           /\ prev' = <<[selectivity |-> call.selectivity, ret |-> ret]>>

Selectivity ==
    /\ call.op = "idle"
    /\ \E c \in {"Product", "OrderLine"}, k \in SelectivityKeys,
          st \in StatsSet \cup {CatalogStats},
          v \in {None} \cup {Some(b) : b \in BrandValues} :
        /\ call' = [op |-> "selectivity_for", collection |-> c, key |-> k,
                    stats |-> st, value |-> v]
        /\ ret' = [status |-> "ok", value |-> selectivity_for(c, k, st, v)]
    /\ prev' = <<>>

\* Stats(**kwargs), then a read of N_STOCK on the new instance
Construct ==
    /\ call.op = "idle"
    /\ \E kw \in StatsKwargs :
        /\ call' = [op |-> "Stats", kwargs |-> kw]
        /\ ret' = LET r == Stats(kw)
                  IN  IF r.status # "ok" THEN r
                      ELSE [status |-> "ok", value |-> r.value,
                            N_STOCK |-> N_STOCK(r.value)]
    /\ prev' = <<>>

\* an assignment to an attribute of a Stats instance
SetAttr ==
    /\ call.op = "idle"
    /\ \E st \in StatsSet \cup {CatalogStats},
          attr \in {"N_STOCK", "N_PRODUCTS", "N_WAREHOUSES"},
          v \in {0, 9} :
        /\ call' = [op |-> "setattr", stats |-> st, attr |-> attr,
                    value |-> v]
        /\ ret' = StatsSetAttr(st, attr, v)
    /\ prev' = <<>>

CollectionCardinality ==
    /\ call.op = "idle"
    /\ \E name \in Collections \cup {"Warehouse", "Client"},
          st \in StatsSet \cup {CatalogStats} :
        /\ call' = [op |-> "cardinality", name |-> name, stats |-> st]
        /\ ret' = [status |-> "ok",
                   value |-> collection_cardinality(name, st)]
    /\ prev' = <<>>

Sharding ==
    /\ call.op = "idle"
    /\ \E st \in StatsSet \cup {CatalogStats},
          inf \in {DefaultInfra, [SERVERS |-> SmallCluster]} :
        /\ call' = [op |-> "sharding", stats |-> st, infra |-> inf]
        /\ ret' = [status |-> "ok", value |-> all_sharding_reports(st, inf)]
    /\ prev' = <<>>

JoinMultiplicity ==
    /\ call.op = "idle"
    /\ \E st \in StatsSet, outer \in Collections, inner \in Collections,
          k \in JoinKeys :
        /\ call' = [op |-> "join_multiplicity", stats |-> st, outer |-> outer,
                    inner |-> inner, join_key |-> k]
        /\ ret' = [status |-> "ok",
                   value |-> _join_multiplicity(outer, inner, k, st)]
    /\ prev' = <<>>

Join ==
    /\ call.op = "idle"
    /\ \E l \in OpLayouts, env \in Envs,
          outer \in {"Product", "Stock", "OrderLine"},
          inner \in {"Product", "Stock", "OrderLine", "Tags"},
          k \in JoinKeys, s \in Selectivities,
          pf \in ProjectedChoices \ {Some(<<"nope">>)},
          sh \in BOOLEAN, al \in BOOLEAN :
        /\ call' = [op |-> "join", layout |-> l, stats |-> env[1],
                    infra |-> env[2],
                    outer |-> outer, inner |-> inner, join_key |-> k,
                    selectivity |-> s, outer_projected |-> pf,
                    inner_projected |-> pf, sharded |-> sh,
                    shard_aligned |-> al]
        /\ ret' = nested_loop_join(Layout(l), env[1], env[2], outer, inner,
                                   k, "key", s, pf, pf, sh, al)
    /\ prev' = <<>>

Aggregate ==
    /\ call.op = "idle"
    /\ \E l \in OpLayouts, env \in Envs,
          c \in {"Product", "OrderLine", "Supplier"}, gk \in GroupKeyChoices,
          pf \in {None, Some(<<>>), Some(<<"IDP">>)}, sh \in BOOLEAN,
          al \in BOOLEAN, fk \in FilterKeyChoices, s \in Selectivities :
        /\ call' = [op |-> "aggregate", layout |-> l, stats |-> env[1],
                    infra |-> env[2], collection |-> c, group_keys |-> gk,
                    projected_fields |-> pf, sharded |-> sh,
                    shard_aligned |-> al, filter_key |-> fk,
                    filter_selectivity |-> s]
        /\ ret' = aggregate_operator(Layout(l), env[1], env[2], c, gk, pf,
                                     sh, al, fk, s)
    /\ prev' = <<>>

\* one iteration of the loop of run_all_reports over query_plan and layouts
RunQuery ==
    /\ call.op = "idle"
    /\ \E q \in QueryNames, db \in DOMAIN all_layouts(Averages) :
        /\ call' = [op |-> "query", query |-> q, layout |-> db]
        /\ ret' = query_plan(q, all_layouts(Averages)[db], DefaultStats,
                             DefaultInfra)
    /\ prev' = <<>>

Next ==
    \/ SizeOf
    \/ Projection
    \/ Filter
    \/ Selectivity
    \/ Construct
    \/ SetAttr
    \/ CollectionCardinality
    \/ Sharding
    \/ JoinMultiplicity
    \/ Join
    \/ Aggregate
    \/ RunQuery
    \/ Return

Spec == Init /\ [][Next]_vars

TypeOK ==
    /\ call.op \in {"idle", "size_of", "projection_size", "filter",
                    "selectivity_for", "cardinality", "sharding", "setattr",
                    "Stats",
                    "join_multiplicity", "join", "aggregate", "query"}
    /\ ret.status \in {"none", "ok", "N/A", "ValueError", "KeyError",
                       "AttributeError", "TypeError", "FrozenInstanceError"}
    /\ Len(prev) <= 1

---------------------------------------------------------------------------
(* Properties of the sizer.                                                *)

\* every node is a primitive, an object or an array carrying its avg_len
RECURSIVE WellFormed(_)
WellFormed(schema) ==
    \/ schema.type \in PrimTypes
    \/ /\ schema.type = "object"
       /\ \A k \in DOMAIN schema.fields : WellFormed(schema.fields[k])
    \/ /\ schema.type = "array"
       /\ "avg_len" \in DOMAIN schema
       /\ WellFormed(schema.items)

RECURSIVE SumOver(_, _)
SumOver(f, S) ==
    IF S = {} THEN 0
    ELSE LET x == CHOOSE y \in S : TRUE IN f[x] + SumOver(f, S \ {x})

\* the reference size of a well-formed schema tree
RECURSIVE RefSize(_)
RefSize(schema) ==
    CASE schema.type \in {"int", "number"} -> 12 + 8
      [] schema.type = "string" -> 12 + 80
      [] schema.type = "date" -> 12 + 20
      [] schema.type = "longstring" -> 12 + 200
      [] schema.type = "object" ->
            SumOver([k \in DOMAIN schema.fields |-> RefSize(schema.fields[k])],
                    DOMAIN schema.fields)
      [] schema.type = "array" -> 12 + schema.avg_len * RefSize(schema.items)

\* C1: for every schema tree of primitive, object and array nodes the sizer
\* returns the reference size: 12 + width for a primitive (int 20), the sum
\* of the field sizes for an object, 12 + avg_len * size(item) for an array.
C1_SizeMatchesReference ==
    (call.op = "size_of" /\ WellFormed(call.schema)) =>
        (ret.status = "ok" /\ ret.value = RefSize(call.schema))

\* an object holding an array of objects has been sized
C1_Witness ==
    /\ call.op = "size_of"
    /\ call.schema = ProdCatSupp(Averages)
    /\ ret.status = "ok"
    /\ ret.value = 1152

\* the sum of the sizes of the requested names present in the schema, one
\* summand per entry of the list
RECURSIVE RefProjSum(_, _)
RefProjSum(schema, fields) ==
    IF fields = <<>> THEN 0
    ELSE (IF Head(fields) \in DOMAIN schema.fields
          THEN RefSize(schema.fields[Head(fields)]) ELSE 0)
         + RefProjSum(schema, Tail(fields))

\* C6: on an object schema projection_size returns the sum of the sizes of
\* the requested top-level names that exist in the schema, absent names
\* adding nothing and raising nothing, and the full document size when that
\* sum is zero.
C6_ProjectionSumOrFallback ==
    (/\ call.op = "projection_size"
     /\ call.schema.type = "object"
     /\ WellFormed(call.schema)) =>
        /\ ret.status = "ok"
        /\ ret.value = IF RefProjSum(call.schema, call.fields) = 0
                       THEN RefSize(call.schema)
                       ELSE RefProjSum(call.schema, call.fields)

\* a list naming only an absent field has been answered with the full size
C6_Witness ==
    /\ call.op = "projection_size"
    /\ call.schema = Obj(("a" :> Prim("int")) @@ ("b" :> Prim("string")))
    /\ call.fields = <<"z">>
    /\ ret.status = "ok"
    /\ ret.value = 112

---------------------------------------------------------------------------
(* Properties of filter_operator.                                          *)

FilterDone == call.op = "filter" /\ ret.status = "ok"

\* C2: output_docs of filter_operator is max(T * s, 1) for 0 < s <= 1 and 0
\* for s = 0, T the document count of the collection, whatever the flags.
C2_MatchedDocsFloor ==
    FilterDone =>
        LET T == collection_cardinality(call.collection, call.stats)
            s == call.selectivity
            Ts == RMul(<<T, 1>>, s)
        IN  /\ s[1] > 0 => ret.output_docs = (IF Ts[1] < Ts[2] THEN <<1, 1>>
                                              ELSE Ts)
            /\ s[1] = 0 => ret.output_docs = <<0, 1>>

\* a filter whose expected matches are below one document reported one
C2_Witness ==
    /\ FilterDone
    /\ call.collection = "Product"
    /\ call.selectivity = <<1, SmallDen>>
    /\ ret.output_docs = <<1, 1>>

\* C3: with every other argument fixed, a filter called with a selectivity
\* at least as large scans and outputs at least as many bytes.
C3_FilterMonotone ==
    (/\ FilterDone
     /\ prev # <<>>
     /\ prev[1].ret.status = "ok"
     /\ RLe(prev[1].selectivity, call.selectivity)) =>
        /\ RLe(prev[1].ret.scanned_bytes, ret.scanned_bytes)
        /\ RLe(prev[1].ret.output_size_bytes, ret.output_size_bytes)

\* a filter repeated with a larger selectivity scanned and output more
C3_Witness ==
    /\ FilterDone
    /\ prev # <<>>
    /\ prev[1].ret.status = "ok"
    /\ RLt(prev[1].selectivity, call.selectivity)
    /\ RLt(prev[1].ret.scanned_bytes, ret.scanned_bytes)
    /\ RLt(prev[1].ret.output_size_bytes, ret.output_size_bytes)

\* C4: shards_touched of filter_operator is 1 when not sharded, 1 when
\* sharded and shard-aware, and the cluster node count when sharded and not
\* shard-aware, for every selectivity and both values of indexed.
C4_FilterShards ==
    FilterDone =>
        ret.shards_touched =
            (CASE ~call.sharded -> 1
               [] call.sharded /\ call.shard_aware -> 1
               [] call.sharded /\ ~call.shard_aware -> call.infra.SERVERS)

\* a sharded, not shard-aware filter of selectivity 0 on the default cluster
C4_Witness ==
    /\ FilterDone
    /\ call.sharded /\ ~call.shard_aware
    /\ call.selectivity = <<0, 1>>
    /\ call.infra.SERVERS = 1000
    /\ ret.shards_touched = 1000

---------------------------------------------------------------------------
(* Properties of the three operators together.                             *)

OperatorDone ==
    call.op \in {"filter", "join", "aggregate"} /\ ret.status = "ok"

\* C5: time, carbon and price of every returned OperatorCost are the shared
\* cost-translation rule applied to the scanned_bytes and shards_touched of
\* that same OperatorCost, with parallelism = shards_touched when sharded and
\* 1 otherwise.
C5_CostsFromReportedFigures ==
    OperatorDone =>
        LET parallelism == IF call.sharded THEN ret.shards_touched ELSE 1
            costs == _costs_from_scan(ret.scanned_bytes, ret.shards_touched,
                                      parallelism)
        IN  /\ ret.time_s = costs.time_s
            /\ ret.carbon_kg = costs.carbon
            /\ ret.price_usd = costs.price

---------------------------------------------------------------------------
(* Properties of the join multiplicity table.                              *)

\* C7: the multiplicity is 1 for (Stock, Product, IDP), N_WAREHOUSES for
\* (Product, Stock, IDP), 1 for (OrderLine, Product, IDP), N_ORDERLINES div
\* N_PRODUCTS for (Product, OrderLine, IDP), and 1 for every other
\* combination; none raises.
C7_JoinMultiplicityTable ==
    call.op = "join_multiplicity" =>
        LET combo == <<call.outer, call.inner, call.join_key>>
            st == call.stats
        IN  /\ ret.status = "ok"
            /\ ret.value =
                (CASE combo = <<"Stock", "Product", "IDP">> -> 1
                   [] combo = <<"Product", "Stock", "IDP">> -> st.N_WAREHOUSES
                   [] combo = <<"OrderLine", "Product", "IDP">> -> 1
                   [] combo = <<"Product", "OrderLine", "IDP">> ->
                        st.N_ORDERLINES \div st.N_PRODUCTS
                   [] OTHER -> 1)

\* a combination absent from the table has been answered with 1
C7_Witness ==
    /\ call.op = "join_multiplicity"
    /\ <<call.outer, call.inner, call.join_key>> = <<"Product", "Stock", "IDW">>
    /\ ret.status = "ok"
    /\ ret.value = 1

---------------------------------------------------------------------------
(* Properties of aggregate_operator.                                       *)

\* an aggregate on a collection the layout holds
AggregateCalled ==
    call.op = "aggregate" /\ call.collection \in DOMAIN Layout(call.layout)

\* C8: output_docs of aggregate_operator is, for OrderLine grouped by exactly
\* ["IDP"], the average products per client when filter_key is "IDC" and
\* N_PRODUCTS otherwise; for OrderLine grouped by exactly ["IDC"], N_CLIENTS;
\* for every other case the input documents (total * filter_selectivity);
\* and no case raises.
C8_DistinctGroupsTable ==
    AggregateCalled =>
        /\ ret.status = "ok"
        /\ LET input_docs ==
                   RMul(<<collection_cardinality(call.collection, call.stats),
                          1>>, call.filter_selectivity)
           IN  CASE call.collection = "OrderLine"
                        /\ call.group_keys = <<"IDP">>
                        /\ call.filter_key = <<"IDC">> -> TRUE
                 [] call.collection = "OrderLine"
                        /\ call.group_keys = <<"IDP">>
                        /\ call.filter_key # <<"IDC">> ->
                            ret.output_docs = <<call.stats.N_PRODUCTS, 1>>
                 [] call.collection = "OrderLine"
                        /\ call.group_keys = <<"IDC">> ->
                            ret.output_docs = <<call.stats.N_CLIENTS, 1>>
                 [] OTHER -> ret.output_docs = input_docs

\* C9: aggregate_operator reports shards_touched = cluster node count when
\* sharded, for both values of shard_aligned, and 1 when not sharded.
C9_AggregateShards ==
    (call.op = "aggregate" /\ ret.status = "ok") =>
        ret.shards_touched =
            (IF call.sharded THEN call.infra.SERVERS ELSE 1)

\* a sharded, shard-aligned aggregate reported the whole default cluster
C9_Witness ==
    /\ call.op = "aggregate"
    /\ ret.status = "ok"
    /\ call.sharded /\ call.shard_aligned
    /\ call.infra.SERVERS = 1000
    /\ ret.shards_touched = 1000

---------------------------------------------------------------------------
(* Properties of the query builders of run_all_reports.                    *)

\* the collections each demonstration query reads
Required(q) ==
    CASE q \in {"Q1"} -> {"Stock"}
      [] q \in {"Q2"} -> {"Product"}
      [] q \in {"Q3", "Q6", "Q7"} -> {"OrderLine"}
      [] q \in {"Q4", "Q5"} -> {"Stock", "Product"}

\* C10: for each layout DB1..DB5 and query Q1..Q7 the builder yields the
\* "N/A" diagnostic exactly when a required collection is absent from the
\* layout, and otherwise an OperatorCost; no pair ends in an error.
C10_QueryNAOrCost ==
    call.op = "query" =>
        LET present == Required(call.query) \subseteq
                           DOMAIN all_layouts(Averages)[call.layout]
        IN  /\ ~present => ret.status = "N/A"
            /\ present => ret.status = "ok"

---------------------------------------------------------------------------
(* Properties of selectivity_for.                                          *)

\* C11: selectivity_for returns a fraction in [0,1]: 1/N_PRODUCTS for IDP,
\* 1/N_WAREHOUSES for IDW, 1/N_CLIENTS for IDC, N_APPLE_PRODUCTS/N_PRODUCTS
\* for brand with a value equal to "apple" whatever its case, 1/N_BRANDS for
\* any other or missing brand value, 1/365 for date, 1/100 for any other
\* key; with 100000 products of which 50 are Apple's the brand selectivity
\* is 1/2000 = 0.0005 and a filter on Product with it matches 50 documents.
C11_SelectivityTable ==
    /\ call.op = "selectivity_for" =>
        LET st == call.stats
            v == call.value
            apple == v \in {<<"apple">>, <<"Apple">>, <<"APPLE">>}
            expected ==
                CASE call.key = "IDP" -> <<1, st.N_PRODUCTS>>
                  [] call.key = "IDW" -> <<1, st.N_WAREHOUSES>>
                  [] call.key = "IDC" -> <<1, st.N_CLIENTS>>
                  [] call.key = "brand" /\ apple ->
                        Norm(st.N_APPLE_PRODUCTS, st.N_PRODUCTS)
                  [] call.key = "brand" /\ ~apple -> <<1, st.N_BRANDS>>
                  [] call.key = "date" -> <<1, 365>>
                  [] OTHER -> <<1, 100>>
        IN  /\ ret.status = "ok"
            /\ ret.value = expected
            /\ 0 <= ret.value[1] /\ ret.value[1] <= ret.value[2]
            /\ (/\ call.key = "brand" /\ apple
                /\ st.N_PRODUCTS = 100000
                /\ st.N_APPLE_PRODUCTS = 50) => ret.value = <<1, 2000>>
    /\ (/\ call.op = "filter"
        /\ ret.status = "ok"
        /\ call.collection = "Product"
        /\ call.stats.N_PRODUCTS = 100000
        /\ call.selectivity = <<1, 2000>>) => ret.output_docs = <<50, 1>>

\* the brand filter on the real catalogue matched 50 products
C11_Witness ==
    /\ call.op = "filter"
    /\ ret.status = "ok"
    /\ call.collection = "Product"
    /\ call.stats = CatalogStats
    /\ call.selectivity =
           selectivity_for("Product", "brand", CatalogStats, Some("Apple"))
    /\ call.selectivity = <<1, 2000>>
    /\ ret.output_docs = <<50, 1>>

---------------------------------------------------------------------------
(* Properties of the statistics record.                                    *)

\* C12: for every Stats record the stock count is N_PRODUCTS * N_WAREHOUSES
\* (20,000,000 for 100,000 products and 200 warehouses); it is accepted
\* neither by the constructor nor by an assignment; and it is the
\* cardinality collection_cardinality gives for Stock and the sharding
\* reports use for Stock.
C12_StockCountDerived ==
    /\ call.op = "Stats" =>
        /\ "N_STOCK" \in DOMAIN call.kwargs => ret.status = "TypeError"
        /\ "N_STOCK" \notin DOMAIN call.kwargs =>
            /\ ret.status = "ok"
            /\ ret.N_STOCK = ret.value.N_PRODUCTS * ret.value.N_WAREHOUSES
            /\ (ret.value.N_PRODUCTS = 100000 /\ ret.value.N_WAREHOUSES = 200)
                   => ret.N_STOCK = 20000000
    /\ call.op = "setattr" => ret.status = "FrozenInstanceError"
    /\ (call.op = "cardinality" /\ call.name = "Stock") =>
        ret.value = call.stats.N_PRODUCTS * call.stats.N_WAREHOUSES
    /\ call.op = "sharding" =>
        \A i \in 1..Len(ret.value) :
            ret.value[i].collection = "Stock" =>
                ret.value[i].docs_per_server =
                    Norm(call.stats.N_PRODUCTS * call.stats.N_WAREHOUSES,
                         call.infra.SERVERS)

\* the Stock cardinality of 100,000 products in 200 warehouses was asked for
C12_Witness ==
    /\ call.op = "cardinality"
    /\ call.name = "Stock"
    /\ call.stats.N_PRODUCTS = 100000
    /\ call.stats.N_WAREHOUSES = 200
    /\ ret.value = 20000000

---------------------------------------------------------------------------
(* Properties of nested_loop_join.                                         *)

JoinDone == call.op = "join" /\ ret.status = "ok"

\* C13: nested_loop_join filters the outer collection with indexed = true
\* and returns output_docs = outer matched docs * multiplicity (the inner
\* hits), scanned_bytes = the outer filter's scanned_bytes + inner hits *
\* inner average document size, output_size_bytes = inner hits * (outer
\* projection size + inner projection size), and shards_touched = 1 if not
\* sharded or shard-aligned, else the node count of the cluster.
C13_JoinFigures ==
    JoinDone =>
        LET layout == Layout(call.layout)
            outer == filter_operator(layout, call.stats, call.infra,
                                     call.outer, "key", call.selectivity,
                                     call.outer_projected, call.sharded,
                                     call.shard_aligned, TRUE)
            matched == FilterMatchedDocs(
                           collection_cardinality(call.outer, call.stats),
                           call.selectivity)
            mult == _join_multiplicity(call.outer, call.inner, call.join_key,
                                       call.stats)
            hits == RMul(matched, R(mult))
            outer_proj == projection_size(layout[call.outer],
                                          OrElse(call.outer_projected, <<>>))
            inner_proj == projection_size(layout[call.inner],
                                          OrElse(call.inner_projected, <<>>))
        IN  /\ outer.status = "ok"
            /\ outer.output_docs = matched
            /\ outer.scanned_bytes =
                   RMul(matched, R(doc_size_bytes(layout[call.outer])))
            /\ ret.output_docs = hits
            /\ ret.scanned_bytes =
                   RAdd(outer.scanned_bytes,
                        RMul(hits, R(doc_size_bytes(layout[call.inner]))))
            /\ ret.output_size_bytes = RMul(hits, R(outer_proj + inner_proj))
            /\ ret.shards_touched =
                   IF ~call.sharded \/ call.shard_aligned THEN 1
                   ELSE call.infra.SERVERS

\* a sharded, unaligned join of filtered products with their stock lines
C13_Witness ==
    /\ JoinDone
    /\ call.outer = "Product"
    /\ call.inner = "Stock"
    /\ call.join_key = "IDP"
    /\ call.sharded
    /\ ~call.shard_aligned
    /\ RLt(R(0), call.selectivity)
    /\ RLt(call.selectivity, R(1))
    /\ call.stats.N_WAREHOUSES > 1
    /\ ret.shards_touched = call.infra.SERVERS
    /\ RLt(R(1), ret.output_docs)

---------------------------------------------------------------------------
(* Properties of the documents filter_operator scans.  The figures are     *)
(* compared as exact rationals: the rounding of the binary64 product      *)
(* docs_per_shard * shards_touched is not represented.                     *)

C14_WitnessScope ==
    /\ FilterDone
    /\ call.sharded
    /\ call.shard_aware
    /\ ~call.indexed
    /\ call.infra.SERVERS = SmallCluster
    /\ call.collection = "OrderLine"
    /\ RLt(R(0), call.selectivity)
    /\ RLt(ret.output_docs, Norm(call.stats.N_ORDERLINES, SmallCluster))
    /\ ret.scanned_bytes =
           RMul(Norm(call.stats.N_ORDERLINES, SmallCluster),
                R(doc_size_bytes(Layout(call.layout)["OrderLine"])))

---------------------------------------------------------------------------
(* Properties of the figures aggregate_operator returns.                   *)

AggregateDone == call.op = "aggregate" /\ ret.status = "ok"

\* C15: aggregate_operator returns scanned_bytes = (collection total *
\* filter_selectivity) * average document size, whatever the sharding flags
\* and the group keys, and output_size_bytes = distinct groups *
\* (projected-field size + 20), 20 being the 12-byte storage overhead plus
\* one 8-byte value, with the projected-field size taken over the group
\* keys when no projected fields are given.
C15_AggregateFigures ==
    AggregateDone =>
        LET schema == Layout(call.layout)[call.collection]
            T == collection_cardinality(call.collection, call.stats)
            given == call.projected_fields # None
                         /\ call.projected_fields[1] # <<>>
            fields == IF given THEN call.projected_fields[1]
                      ELSE call.group_keys
        IN  /\ ret.scanned_bytes =
                   RMul(RMul(R(T), call.filter_selectivity),
                        R(doc_size_bytes(schema)))
            /\ ret.output_size_bytes =
                   RMul(ret.output_docs,
                        R(projection_size(schema, fields) + 20))
            /\ KV_OVERHEAD_B = 12
            /\ INT_B = 8

\* a sharded aggregate without projected fields sized its groups by the key
C15_Witness ==
    /\ AggregateDone
    /\ call.projected_fields = None
    /\ call.group_keys = <<"IDP">>
    /\ call.collection = "OrderLine"
    /\ call.sharded
    /\ call.filter_selectivity = <<1, 2>>
    /\ RLt(R(0), ret.output_size_bytes)
    /\ ret.output_size_bytes =
           RMul(ret.output_docs,
                R(projection_size(Layout(call.layout)["OrderLine"],
                                  <<"IDP">>) + 20))

---------------------------------------------------------------------------
(* Properties of the sizer on schemas with unknown node types.             *)

KnownTypes == PrimTypes \cup {"object", "array"}

\* some node the sizer reaches in the tree has a type it does not know
RECURSIVE HasUnknownNode(_)
HasUnknownNode(schema) ==
    IF schema.type \in PrimTypes THEN FALSE
    ELSE IF schema.type = "object"
        THEN \E k \in DOMAIN schema.fields : HasUnknownNode(schema.fields[k])
    ELSE IF schema.type = "array" THEN HasUnknownNode(schema.items)
    ELSE TRUE

\* C16: the sizer raises ValueError for every schema tree holding a node
\* whose type is none of the five primitives, object or array, wherever the
\* node is reached (an object field or an array's item schema, also of an
\* array of average length 0 or without one); it returns no size for it.
C16_UnknownTypeRaises ==
    (call.op = "size_of" /\ HasUnknownNode(call.schema)) =>
        /\ ret.status = "ValueError"
        /\ "value" \notin DOMAIN ret

\* an array of average length 0 over an unknown item type was refused
C16_Witness ==
    /\ call.op = "size_of"
    /\ call.schema.type = "array"
    /\ "avg_len" \in DOMAIN call.schema
    /\ call.schema.avg_len = 0
    /\ call.schema.items.type \notin KnownTypes
    /\ ret.status = "ValueError"

---------------------------------------------------------------------------
(* The bound filter_operator keeps on what it scans.                       *)

C17_WitnessUnknown ==
    /\ FilterDone
    /\ collection_cardinality(call.collection, call.stats) = 0
    /\ RLt(R(0), call.selectivity)
    /\ ret.output_docs = R(1)
    /\ RLt(R(0), ret.scanned_bytes)

====
